---- MODULE Spec2Model ----
(***************************************************************************)
(* Belt Stop Sync (src/app.js): the Web Bluetooth client of a belt-stop    *)
(* sensor.  The model covers the line framer (onNotify), the protocol      *)
(* dispatcher (handleLine) with its asynchronous continuations, the        *)
(* outbound commands (writeLine and the send* functions), and the          *)
(* connection life cycle (connect, setConnected, onDisconnected).          *)
(*                                                                         *)
(* JavaScript strings are sequences of one-character strings, so that      *)
(* slicing, trimming, splitting and number parsing are computed as the     *)
(* code computes them.  An async function is a task that is parked at an   *)
(* await; the synchronous run up to the next await is one atomic step.     *)
(***************************************************************************)
EXTENDS Integers, Sequences, FiniteSets, TLC

(***************************************************************************)
(* Bounds of the model.                                                    *)
(***************************************************************************)
MaxInputs == 3     \* external stimuli: clicks, lines sent, link losses
MaxLines == 2       \* lines the device sends
MaxStream == 5      \* characters of a raw byte stream

(***************************************************************************)
(* JavaScript string primitives.                                           *)
(***************************************************************************)
NL == "\n"

WhiteSpace == {" ", "\t", "\r", "\n"}

Digits == <<"0", "1", "2", "3", "4", "5", "6", "7", "8", "9">>

IsDigit(c) == \E i \in 1..10 : Digits[i] = c

DigitVal(c) == (CHOOSE i \in 1..10 : Digits[i] = c) - 1

\* String.prototype.indexOf(c): the first position of c, 0 when absent
\* (JavaScript's -1; positions are 1-based here).
IndexOf(s, c) ==
    IF \E i \in 1..Len(s) : s[i] = c
    THEN CHOOSE i \in 1..Len(s) : s[i] = c /\ \A j \in 1..(i-1) : s[j] # c
    ELSE 0

\* String.prototype.trim()
RECURSIVE TrimStart(_)
TrimStart(s) ==
    IF s # <<>> /\ Head(s) \in WhiteSpace THEN TrimStart(Tail(s)) ELSE s

RECURSIVE TrimEnd(_)
TrimEnd(s) ==
    IF s # <<>> /\ s[Len(s)] \in WhiteSpace
    THEN TrimEnd(SubSeq(s, 1, Len(s) - 1))
    ELSE s

Trim(s) == TrimEnd(TrimStart(s))

\* String.prototype.split(sep) for a one-character separator: always at
\* least one field, empty fields kept.
RECURSIVE Split(_, _)
Split(s, sep) ==
    LET i == IndexOf(s, sep)
    IN  IF i = 0
        THEN <<s>>
        ELSE <<SubSeq(s, 1, i - 1)>> \o Split(SubSeq(s, i + 1, Len(s)), sep)

\* The longest prefix of s made of digits.
RECURSIVE DigitPrefix(_)
DigitPrefix(s) ==
    IF s # <<>> /\ IsDigit(Head(s))
    THEN <<Head(s)>> \o DigitPrefix(Tail(s))
    ELSE <<>>

RECURSIVE DigitsValue(_)
DigitsValue(ds) ==
    IF ds = <<>>
    THEN 0
    ELSE 10 * DigitsValue(SubSeq(ds, 1, Len(ds) - 1)) + DigitVal(ds[Len(ds)])

\* parseInt(s, 10): leading white space skipped, an optional sign, then the
\* longest run of digits; NaN when there is no digit.
parseInt(s) ==
    LET t == TrimStart(s)
        neg == t # <<>> /\ Head(t) = "-"
        u == IF t # <<>> /\ Head(t) \in {"-", "+"} THEN Tail(t) ELSE t
        ds == DigitPrefix(u)
    IN  IF ds = <<>>
        THEN [nan |-> TRUE, val |-> 0]
        ELSE [nan |-> FALSE,
              val |-> IF neg THEN 0 - DigitsValue(ds) ELSE DigitsValue(ds)]

\* x || 0 for a number x: NaN and 0 are falsy.
OrZero(r) == IF r.nan THEN 0 ELSE r.val

\* String(n) for an integer n.
RECURSIVE NatToString(_)
NatToString(n) ==
    IF n < 10
    THEN <<Digits[n + 1]>>
    ELSE NatToString(n \div 10) \o <<Digits[(n % 10) + 1]>>

String(n) == IF n < 0 THEN <<"-">> \o NatToString(0 - n) ELSE NatToString(n)

\* String(n).padStart(2, '0')
pad(n) == LET t == String(n) IN IF Len(t) < 2 THEN <<"0">> \o t ELSE t

\* formatHMS(ms)
formatHMS(ms) ==
    LET s0 == ms \div 1000
        h == s0 \div 3600
        s1 == s0 - h * 3600
        m == s1 \div 60
        s == s1 - m * 60
    IN  IF h > 0 THEN String(h) \o <<":">> \o pad(m) \o <<":">> \o pad(s)
        ELSE IF m > 0 THEN String(m) \o <<"m", " ">> \o String(s) \o <<"s">>
        ELSE String(s) \o <<"s">>

\* Numbers that may be NaN.
Num(v) == [nan |-> FALSE, val |-> v]

NaN == [nan |-> TRUE, val |-> 0]

NaNText == <<"N", "a", "N">>

\* `${x}` for an integer-valued number x.
NumToString(r) == IF r.nan THEN NaNText ELSE String(r.val)

\* hhmmToMin(hhmm): a missing minutes part is undefined, and h*60 + undefined
\* is NaN.
hhmmToMin(hhmm) ==
    LET f == Split(hhmm, ":")
        h == OrZero(parseInt(f[1]))
    IN  IF Len(f) >= 2 THEN Num(h * 60 + OrZero(parseInt(f[2]))) ELSE NaN

\* The first k digits of a fraction, padded on the right with zeros.
RECURSIVE FracDigits(_, _)
FracDigits(ds, k) ==
    IF k = 0 THEN <<>>
    ELSE IF ds = <<>> THEN <<"0">> \o FracDigits(<<>>, k - 1)
    ELSE <<Head(ds)>> \o FracDigits(Tail(ds), k - 1)

\* parseFloat(s) for decimal notation (sign, digits, fraction), held in
\* millionths: micro is the magnitude rounded to six decimals, nonzero tells
\* whether the parsed value differs from 0.  Exponents and the literal
\* Infinity are outside the inputs of this model.
parseFloat(s) ==
    LET t == TrimStart(s)
        neg == t # <<>> /\ Head(t) = "-"
        u == IF t # <<>> /\ Head(t) \in {"-", "+"} THEN Tail(t) ELSE t
        ip == DigitPrefix(u)
        r == SubSeq(u, Len(ip) + 1, Len(u))
        fp == IF r # <<>> /\ Head(r) = "." THEN DigitPrefix(Tail(r)) ELSE <<>>
        up == IF Len(fp) >= 7 /\ DigitVal(fp[7]) >= 5 THEN 1 ELSE 0
    IN  IF ip = <<>> /\ fp = <<>>
        THEN [nan |-> TRUE, neg |-> FALSE, micro |-> 0, nonzero |-> FALSE]
        ELSE [nan |-> FALSE, neg |-> neg,
              micro |-> DigitsValue(ip) * 1000000
                          + DigitsValue(FracDigits(fp, 6)) + up,
              nonzero |-> \E i \in 1..Len(ip \o fp) : (ip \o fp)[i] # "0"]

\* Number.prototype.toFixed(6) of a finite number.
toFixed6(v) ==
    (IF v.neg /\ v.nonzero THEN <<"-">> ELSE <<>>)
        \o String(v.micro \div 1000000) \o <<".">>
        \o FracDigits(SubSeq(String(1000000 + (v.micro % 1000000)), 2, 7), 6)

\* `${x}` for a number x with at most six decimals: no trailing zeros, no
\* point when the fraction is zero.
RECURSIVE DropZeros(_)
DropZeros(ds) ==
    IF ds # <<>> /\ ds[Len(ds)] = "0"
    THEN DropZeros(SubSeq(ds, 1, Len(ds) - 1))
    ELSE ds

FloatToString(v) ==
    IF v.nan THEN NaNText
    ELSE LET fr == DropZeros(SubSeq(String(1000000 + (v.micro % 1000000)), 2, 7))
         IN  (IF v.neg /\ v.micro # 0 THEN <<"-">> ELSE <<>>)
                 \o String(v.micro \div 1000000)
                 \o (IF fr = <<>> THEN <<>> ELSE <<".">> \o fr)

(***************************************************************************)
(* Protocol words and the lines the device sends in this model.            *)
(***************************************************************************)
K_HELLO == <<"H", "E", "L", "L", "O">>
K_CAL == <<"C", "A", "L">>
K_EV == <<"E", "V">>
K_SYNC == <<"S", "Y", "N", "C">>
K_DONE == <<"D", "O", "N", "E">>
P_ACK == <<"S", "Y", "N", "C", ",", "A", "C", "K", ",">>
P_TIME == <<"T", "I", "M", "E", ",", "U", "T", "C", ",">>
P_SCHED == <<"C", "F", "G", ",", "S", "C", "H", "E", "D", ",">>
P_BREAKS == <<"C", "F", "G", ",", "B", "R", "E", "A", "K", "S", ",">>
P_THRESH == <<"C", "F", "G", ",", "T", "H", "R", "E", "S", "H", ",">>
T_CALON == <<"M", "O", "D", "E", ",", "C", "A", "L", "I", "B", ",", "O", "N">>
T_CALOFF == <<"M", "O", "D", "E", ",", "C", "A", "L", "I", "B", ",", "O", "F", "F">>
T_REQ == <<"S", "Y", "N", "C", ",", "R", "E", "Q">>

L_HELLO == <<"H", "E", "L", "L", "O", ",", "d", ",", "F", "W", ",", "1", ".", "2", ",", "1", ",", "0", ",", "3", ",", "7">>
L_HELLO_SHORT == <<"H", "E", "L", "L", "O", ",", "d">>
L_CAL == <<"C", "A", "L", ",", "0", ".", "5">>
L_CAL_SHORT == <<"C", "A", "L">>
L_CAL_BAD == <<"C", "A", "L", ",", "x">>
L_EV == <<"E", "V", ",", "1", "7", "0", "0", "0", "0", "0", "0", "0", "0", ",", "4", "5", "2", "3", ",", "1", "7">>
L_EV2 == <<"E", "V", ",", "1", "7", "0", "0", "0", "0", "0", "1", "0", "0", ",", "6", "1", "0", "0", "0", ",", "1", "8", "\r">>
L_EV_SHORT == <<"E", "V", ",", "1", "7", "0", "0", "0", "0", "0", "0", "0", "0">>
L_EV_BAD == <<"E", "V", ",", "x", ",", "4", "5", "2", "3", ",", "1", "7">>
L_SYNC == <<"S", "Y", "N", "C", ",", "D", "O", "N", "E", ",", "4", "2">>
L_SYNC_SHORT == <<"S", "Y", "N", "C", ",", "D", "O", "N", "E">>
L_SYNC_OTHER == <<"S", "Y", "N", "C", ",", "R", "E", "Q", ",", "1">>
L_SYNC_BAD == <<"S", "Y", "N", "C", ",", "D", "O", "N", "E", ",", "x">>
L_UNKNOWN == <<"F", "O", "O", ",", "1">>
L_CAL_TAIL == <<"C", "A", "L", ",", "0", ".", "5", "g">>
L_EV_TAIL ==
    <<"E", "V", ",", "1", "7", "0", "0", "0", "0", "0", "0", "0", "0", ",",
      "4", "5", "x", ",", "1", "7">>
L_SYNC_TAIL == <<"S", "Y", "N", "C", ",", "D", "O", "N", "E", ",", "7", "x">>

\* The lines a device may send (each is followed by a newline on the wire).
Catalog ==
    { L_HELLO, L_CAL, L_CAL_SHORT, L_CAL_BAD, L_EV, L_EV2, L_EV_SHORT,
      L_EV_BAD, L_SYNC, L_SYNC_SHORT, L_SYNC_OTHER, L_SYNC_BAD, L_UNKNOWN }

\* The lines with a numeric field that is not a number: no digit at all, or
\* digits followed by something else.
Lenient ==
    { L_CAL_BAD, L_EV_BAD, L_SYNC_BAD, L_CAL_TAIL, L_EV_TAIL, L_SYNC_TAIL }

\* The lines that are too short for their kind, or of no known kind.
Malformed ==
    { L_HELLO_SHORT, L_CAL_SHORT, L_EV_SHORT, L_SYNC_SHORT, L_SYNC_OTHER,
      L_UNKNOWN }

\* The lines of the connection life cycle specification.
CoreCatalog == { L_HELLO, L_EV, L_SYNC, L_UNKNOWN }

\* Where a notification may end in the specifications that send whole
\* protocol lines: at the end of what was sent, after the first newline, or
\* in the middle of the first pending line.
ChunkEnds(w) ==
    LET i == IndexOf(w, NL)
    IN  {k \in {Len(w), i, i \div 2} : k >= 1}

\* Chunk boundaries at line ends only: the first line, or all that is sent.
LineEnds(w) == {k \in {Len(w), IndexOf(w, NL)} : k >= 1}

\* Bytes are written as the ASCII character they encode; LEAD and CONT are
\* the two bytes of the UTF-8 encoding of U+00E9.
LEAD == "0xC3"
CONT == "0xA9"

\* The bytes of the raw streams fed to the framer.
FramerAlphabet == {"a", " ", NL, LEAD, CONT}

\* new TextDecoder().decode(bytes): UTF-8, one call per chunk.  A lead byte
\* without its continuation byte (also at the end of the chunk) and a
\* continuation byte on its own each decode to U+FFFD.
RECURSIVE TextDecode(_)
TextDecode(b) ==
    IF b = <<>> THEN <<>>
    ELSE IF Head(b) = LEAD
    THEN IF Len(b) >= 2 /\ b[2] = CONT
         THEN <<"U+00E9">> \o TextDecode(Tail(Tail(b)))
         ELSE <<"U+FFFD">> \o TextDecode(Tail(b))
    ELSE IF Head(b) = CONT
    THEN <<"U+FFFD">> \o TextDecode(Tail(b))
    ELSE <<Head(b)>> \o TextDecode(Tail(b))

(***************************************************************************)
(* The values of the form controls the send functions read.                *)
(***************************************************************************)
tzSelect == <<"-", "3", "0", "0">>
winEnabled == TRUE
winStart == <<"0", "0", ":", "0", "0">>
winEnd == <<"0", "9", ":", "0", "0">>
breaksEnabled == TRUE
b1Start == <<"0", "3", ":", "4", "5">>
b1End == <<"0", "4", ":", "0", "0">>
b2Start == <<"0", "6", ":", "0", "0">>
b2End == <<"0", "6", ":", "3", "0">>
thresh == <<"0", ".", "0", "0", "3">>
hyst == <<"0", ".", "0", "0", "1", "5">>
secsDown == <<"5">>
secsUp == <<"3">>

\* Math.floor(Date.now()/1000): the clock, one sample instant.
epoch == 1700000000

\* device.name of the one device in range.
deviceNameText == "BeltStop-1"

(***************************************************************************)
(* State.                                                                  *)
(***************************************************************************)
VARIABLES
    bluetooth,          \* navigator.bluetooth is present
    device, server, service, rxChar, txChar,
                        \* the handles: "none" (undefined), "live" (of the
                        \* current link) or "stale" (of a lost link)
    lineBuffer,         \* the framer's pending characters
    lastIdxFromDevice,
    db,                 \* [events, settings]: the committed records
    ui,                 \* the page: texts, disabled flags, the log
    tasks,              \* async functions parked at an await
    attempts,           \* connect() calls parked at an await
    txQueue,            \* IndexedDB transactions not yet finished, oldest first
    linkUp,             \* the GATT link is up
    notifyOn,           \* onNotify listens on the live notify characteristic
    wire,               \* characters the device has sent, not yet delivered
    written,            \* history: every rxChar.writeValue call and its outcome
    added,              \* history: every addEvent call and its outcome
    received,           \* history: every byte delivered to onNotify
    decoded,            \* history: the text onNotify decoded, chunk by chunk
    nLines, nInputs

vars ==
    << bluetooth, device, server, service, rxChar, txChar, lineBuffer,
       lastIdxFromDevice, db, ui, tasks, attempts, txQueue, linkUp, notifyOn,
       wire, written, added, received, decoded, nLines, nInputs >>

CommandButtons ==
    { "btnSendTime", "btnSendSchedule", "btnSendBreaks", "btnSendThresh",
      "btnCalOn", "btnCalOff", "btnSync" }

Buttons == {"btnConnect", "btnDisconnect"} \cup CommandButtons

\* The command buttons the user clicks in the full specification; the send
\* functions of the other two also run as the pushes of a HELLO.
CoreButtons ==
    {"btnSendTime", "btnSendThresh", "btnCalOn", "btnCalOff", "btnSync"}

\* The disabled attributes the page starts with: only Connect can be used.
InitialDisabled == [b \in Buttons |-> b # "btnConnect"]

NoStop == [shown |-> FALSE, start |-> 0, hms |-> <<>>]

InitialUi ==
    [ connStatus |-> "Disconnected",
      deviceName |-> "-",
      disabled |-> InitialDisabled,
      shiftStops |-> <<>>,
      lastStop |-> NoStop,
      vibG |-> <<>>,
      syncInfo |-> "",
      log |-> <<>> ]

NoSettings == [k \in {"schedule", "breaks", "thresholds"} |-> "none"]

\* The part of the state the synchronous code works on.
Cur ==
    [ ui |-> ui, lineBuffer |-> lineBuffer,
      lastIdxFromDevice |-> lastIdxFromDevice, tasks |-> tasks,
      txQueue |-> txQueue, written |-> written, added |-> added ]

Assign(S) ==
    /\ ui' = S.ui
    /\ lineBuffer' = S.lineBuffer
    /\ lastIdxFromDevice' = S.lastIdxFromDevice
    /\ tasks' = S.tasks
    /\ txQueue' = S.txQueue
    /\ written' = S.written
    /\ added' = S.added

\* log(s): one entry of the operator log (the time stamp is left out).
log(S, kind, text) ==
    [S EXCEPT !.ui.log = Append(@, [kind |-> kind, text |-> text])]

\* The lines handed to handleLine so far: each wrote one "<- line" entry.
RECURSIVE RxLines(_)
RxLines(l) ==
    IF l = <<>> THEN <<>>
    ELSE (IF Head(l).kind = "rx" THEN <<Head(l).text>> ELSE <<>>)
             \o RxLines(Tail(l))

handled == RxLines(ui.log)

(***************************************************************************)
(* Outbound commands.  A task is an async function parked at an await:     *)
(* todo is the send functions still to run (the head is the running one),  *)
(* pc the awaited operation ("write", "save", "add"), issued whether       *)
(* writeLine called writeValue, live whether that call can still succeed.  *)
(***************************************************************************)
NoEvent == [startEpoch |-> 0, durationMs |-> 0, deviceId |-> "", accumStops |-> 0]

NewTask(src, n, todo) ==
    [ src |-> src, n |-> n, todo |-> todo, pc |-> "write", issued |-> FALSE,
      live |-> FALSE, last |-> 0, ev |-> NoEvent ]

Flag(b) == IF b THEN <<"1">> ELSE <<"0">>

\* An acknowledgement of the index before the one the device reported.
AckTextPrevious(t) == P_ACK \o String(t.last - 1)

\* `SYNC,ACK,${last}` of handleLine.
AckText(t) == P_ACK \o String(t.last)

\* The line each send function passes to writeLine.
CommandText(t) ==
    LET fn == Head(t.todo)
    IN  CASE fn = "sendTimeOnly" ->
               P_TIME \o String(epoch) \o <<",">>
                   \o NumToString(parseInt(tzSelect))
          [] fn = "sendSchedule" ->
               P_SCHED \o NumToString(hhmmToMin(winStart)) \o <<",">>
                   \o NumToString(hhmmToMin(winEnd)) \o <<",">>
                   \o Flag(winEnabled)
          [] fn = "sendBreaks" ->
               P_BREAKS \o NumToString(hhmmToMin(b1Start)) \o <<",">>
                   \o NumToString(hhmmToMin(b1End)) \o <<",">>
                   \o NumToString(hhmmToMin(b2Start)) \o <<",">>
                   \o NumToString(hhmmToMin(b2End)) \o <<",">>
                   \o Flag(breaksEnabled)
          [] fn = "sendThresholds" ->
               P_THRESH \o FloatToString(parseFloat(thresh)) \o <<",">>
                   \o FloatToString(parseFloat(hyst)) \o <<",">>
                   \o NumToString(parseInt(secsDown)) \o <<",">>
                   \o NumToString(parseInt(secsUp))
          [] fn = "ack" -> AckText(t)
          [] fn = "calOn" -> T_CALON
          [] fn = "calOff" -> T_CALOFF
          [] fn = "syncReq" -> T_REQ

\* writeLine(s): nothing without a write characteristic, else one
\* writeValue call with s and a newline.
writeLine(S, s, src, n) ==
    IF rxChar = "none"
    THEN S
    ELSE [S EXCEPT !.written =
              Append(@, [ text |-> s \o <<NL>>, src |-> src, n |-> n,
                          conn |-> S.ui.connStatus, state |-> "pending" ])]

\* The running function calls writeLine and awaits the result.
StartFn(S, t) ==
    LET S1 == writeLine(S, CommandText(t), t.src, t.n)
        parked == [t EXCEPT !.pc = "write",
                            !.issued = (rxChar # "none"),
                            !.live = (rxChar = "live" /\ linkUp)]
    IN  [S1 EXCEPT !.tasks = @ \cup {parked}]

\* The running function returns: the caller goes on with the next one.
FnReturn(S, t) ==
    IF Tail(t.todo) = <<>> THEN S ELSE StartFn(S, [t EXCEPT !.todo = Tail(@)])

\* saveSetting(k, v): a readwrite transaction on the settings store.
saveSetting(S, t) ==
    [S EXCEPT !.tasks = @ \cup {[t EXCEPT !.pc = "save"]},
              !.txQueue = Append(@, [store |-> "settings", src |-> t.src, n |-> t.n])]

\* What follows `await writeLine(...)` in the running function.
AfterWrite(S, t) ==
    LET fn == Head(t.todo)
    IN  CASE fn \in {"sendSchedule", "sendBreaks", "sendThresholds"} ->
               saveSetting(S, t)
          [] fn = "ack" ->
               FnReturn([S EXCEPT !.ui.syncInfo = "Sync complete."], t)
          [] fn = "calOn" ->
               FnReturn([S EXCEPT !.ui.disabled["btnCalOff"] = FALSE], t)
          [] OTHER -> FnReturn(S, t)

\* The value saveSetting stores for the running function.
SettingKey(t) ==
    CASE Head(t.todo) = "sendSchedule" -> "schedule"
      [] Head(t.todo) = "sendBreaks" -> "breaks"
      [] OTHER -> "thresholds"

SettingValue(t) == SubSeq(Split(CommandText(t), ","), 3, Len(Split(CommandText(t), ",")))

\* addEvent(ev): a readwrite transaction on the events store.
addEvent(S, t) ==
    [S EXCEPT !.tasks = @ \cup {[t EXCEPT !.pc = "add"]},
              !.txQueue = Append(@, [store |-> "events", src |-> t.src, n |-> t.n]),
              !.added = Append(@, [ src |-> t.src, n |-> t.n, ev |-> t.ev,
                                    state |-> "pending" ])]

\* What follows `await addEvent(...)` in handleLine.
AfterAdd(S, t) ==
    [S EXCEPT !.ui.shiftStops = String(t.ev.accumStops),
              !.ui.lastStop = [ shown |-> TRUE, start |-> t.ev.startEpoch,
                                hms |-> formatHMS(t.ev.durationMs) ]]

(***************************************************************************)
(* Protocol handling.                                                      *)
(***************************************************************************)
ZeroFixed == <<"0", ".", "0", "0", "0", "0", "0", "0">>

\* The record of an EV line with the duration read from the last field.
StopEventLastField(parts) ==
    [ startEpoch |-> OrZero(parseInt(parts[2])),
      durationMs |-> OrZero(parseInt(parts[4])),
      deviceId |-> IF device # "none" THEN deviceNameText ELSE "unknown",
      accumStops |-> OrZero(parseInt(parts[4])) ]

\* The record handleLine builds from the fields of an EV line.
StopEvent(parts) ==
    [ startEpoch |-> OrZero(parseInt(parts[2])),
      durationMs |-> OrZero(parseInt(parts[3])),
      deviceId |-> IF device # "none" THEN deviceNameText ELSE "unknown",
      accumStops |-> OrZero(parseInt(parts[4])) ]

\* The pushes of a HELLO with the schedule sent before the time.
HelloPushesScheduleFirst == <<"sendSchedule", "sendTimeOnly", "sendBreaks">>

\* The pushes handleLine awaits, one after the other, on a HELLO.
HelloPushes == <<"sendTimeOnly", "sendSchedule", "sendBreaks">>

\* handleLine(line) up to its first await.
handleLine(S, line) ==
    LET n == Len(RxLines(S.ui.log)) + 1
        S1 == log(S, "rx", line)
        parts == Split(line, ",")
    IN  CASE parts[1] = K_HELLO ->
               LET S2 == IF Len(parts) >= 8
                         THEN [S1 EXCEPT !.ui.shiftStops =
                                   String(OrZero(parseInt(parts[8])))]
                         ELSE S1
               IN  StartFn(S2, NewTask("line", n, HelloPushes))
          [] parts[1] = K_CAL ->
               IF Len(parts) >= 2
               THEN LET v == parseFloat(parts[2])
                    IN  [S1 EXCEPT !.ui.vibG =
                             IF v.nan THEN ZeroFixed ELSE toFixed6(v)]
               ELSE S1
          [] parts[1] = K_EV ->
               IF Len(parts) >= 4
               THEN addEvent(S1,
                        [NewTask("line", n, <<"ev">>) EXCEPT
                            !.ev = StopEvent(parts)])
               ELSE S1
          [] parts[1] = K_SYNC ->
               IF Len(parts) >= 3 /\ parts[2] = K_DONE
               THEN LET last == OrZero(parseInt(parts[3]))
                    IN  StartFn([S1 EXCEPT !.lastIdxFromDevice = last],
                                [NewTask("line", n, <<"ack">>) EXCEPT !.last = last])
               ELSE S1
          [] OTHER -> S1

\* Drain with `if` in place of `while`: at most one line per chunk.
DrainOnce(S) ==
    LET idx == IndexOf(S.lineBuffer, NL)
    IN  IF idx = 0
        THEN S
        ELSE LET line == Trim(SubSeq(S.lineBuffer, 1, idx - 1))
                 S1 == [S EXCEPT !.lineBuffer = SubSeq(@, idx + 1, Len(@))]
             IN  IF line # <<>> THEN handleLine(S1, line) ELSE S1

\* The while loop of onNotify: every complete line leaves the buffer.
RECURSIVE Drain(_)
Drain(S) ==
    LET idx == IndexOf(S.lineBuffer, NL)
    IN  IF idx = 0
        THEN S
        ELSE LET line == Trim(SubSeq(S.lineBuffer, 1, idx - 1))
                 S1 == [S EXCEPT !.lineBuffer = SubSeq(@, idx + 1, Len(@))]
             IN  Drain(IF line # <<>> THEN handleLine(S1, line) ELSE S1)

\* onNotify with `lineBuffer = v` in place of `lineBuffer += v`.
onNotifyAssign(S, v) == Drain([S EXCEPT !.lineBuffer = v])

\* onNotify(e) with the chunk v decoded from e.target.value.
onNotify(S, v) == Drain([S EXCEPT !.lineBuffer = @ \o v])

\* setConnected without the line for btnCalOff.
setConnectedSkipsCalOff(u, on) ==
    [u EXCEPT !.disabled = [b \in Buttons |->
                               IF b = "btnCalOff" THEN u.disabled[b]
                               ELSE IF b = "btnConnect" THEN on ELSE ~on],
              !.connStatus = IF on THEN "Connected" ELSE "Disconnected",
              !.deviceName = IF on /\ device # "none" THEN deviceNameText ELSE "-"]

\* setConnected(on)
setConnected(u, on) ==
    [u EXCEPT !.disabled = [b \in Buttons |-> IF b = "btnConnect" THEN on ELSE ~on],
              !.connStatus = IF on THEN "Connected" ELSE "Disconnected",
              !.deviceName = IF on /\ device # "none" THEN deviceNameText ELSE "-"]

\* onDisconnected()
onDisconnectedResetsIdx(S) ==
    log([S EXCEPT !.ui = setConnected(@, FALSE), !.lastIdxFromDevice = -1],
        "Disconnected", <<>>)

onDisconnected(S) ==
    log([S EXCEPT !.ui = setConnected(@, FALSE)], "Disconnected", <<>>)

(***************************************************************************)
(* Initial state: the module-level declarations and the page as loaded.    *)
(***************************************************************************)
Init ==
    /\ bluetooth \in BOOLEAN
    /\ device = "none" /\ server = "none" /\ service = "none"
    /\ rxChar = "none" /\ txChar = "none"
    /\ lineBuffer = <<>>
    /\ lastIdxFromDevice = -1
    /\ db = [events |-> <<>>, settings |-> NoSettings]
    /\ ui = InitialUi
    /\ tasks = {} /\ attempts = {} /\ txQueue = <<>>
    /\ linkUp = FALSE /\ notifyOn = FALSE
    /\ wire = <<>> /\ written = <<>> /\ added = <<>> /\ received = <<>> /\ decoded = <<>>
    /\ nLines = 0 /\ nInputs = 0

(***************************************************************************)
(* connect(): one step per await.                                          *)
(***************************************************************************)
ConnectSteps ==
    <<"requestDevice", "gattConnect", "getService", "getRx", "getTx", "startNotif">>

NextStep(pc) == ConnectSteps[(CHOOSE i \in 1..6 : ConnectSteps[i] = pc) + 1]

\* The Connect button: connect() up to `await requestDevice(...)`.
ClickConnect ==
    /\ ~ui.disabled["btnConnect"]
    /\ nInputs < MaxInputs
    /\ nInputs' = nInputs + 1
    /\ attempts' = IF bluetooth
                   THEN attempts \cup
                        {[n |-> nInputs + 1, pc |-> "requestDevice", live |-> TRUE]}
                   ELSE attempts
    /\ UNCHANGED << bluetooth, device, server, service, rxChar, txChar,
                    lineBuffer, lastIdxFromDevice, db, ui, tasks, txQueue,
                    linkUp, notifyOn, wire, written, added, received, decoded, nLines >>

\* connect() that pushes the time right after setConnected(true).
ConnectStepPushesTime(a, ok) ==
    /\ a \in attempts
    /\ ok => a.live
    /\ attempts' =
           IF ok /\ a.pc # "startNotif"
           THEN (attempts \ {a}) \cup {[a EXCEPT !.pc = NextStep(a.pc)]}
           ELSE attempts \ {a}
    /\ device' = IF ok /\ a.pc = "requestDevice" THEN "live" ELSE device
    /\ server' = IF ok /\ a.pc = "gattConnect" THEN "live" ELSE server
    /\ linkUp' = IF ok /\ a.pc = "gattConnect" THEN TRUE ELSE linkUp
    /\ service' = IF ok /\ a.pc = "getService" THEN "live" ELSE service
    /\ rxChar' = IF ok /\ a.pc = "getRx" THEN "live" ELSE rxChar
    /\ txChar' = IF ok /\ a.pc = "getTx" THEN "live" ELSE txChar
    /\ notifyOn' = IF ok /\ a.pc = "startNotif" THEN TRUE ELSE notifyOn
    /\ Assign(IF ~ok THEN log(Cur, "ConnectError", <<>>)
              ELSE IF a.pc = "startNotif"
              THEN StartFn(log([Cur EXCEPT !.ui = setConnected(@, TRUE)],
                               "Connected", <<>>),
                           NewTask("connect", a.n, <<"sendTimeOnly">>))
              ELSE Cur)
    /\ UNCHANGED << bluetooth, db, wire, received, decoded, nLines, nInputs >>

\* The awaited step of attempt a settles: resolved (ok) or rejected.  A GATT
\* operation of a lost link cannot resolve.
ConnectStep(a, ok) ==
    /\ a \in attempts
    /\ ok => a.live
    /\ IF ~ok
       THEN \* catch (e): log('Connect error: ' + e)
            /\ attempts' = attempts \ {a}
            /\ ui' = log(Cur, "ConnectError", <<>>).ui
            /\ UNCHANGED << device, server, service, rxChar, txChar, linkUp,
                            notifyOn >>
       ELSE /\ attempts' =
                  IF a.pc = "startNotif"
                  THEN attempts \ {a}
                  ELSE (attempts \ {a}) \cup {[a EXCEPT !.pc = NextStep(a.pc)]}
            /\ device' = IF a.pc = "requestDevice" THEN "live" ELSE device
            /\ server' = IF a.pc = "gattConnect" THEN "live" ELSE server
            /\ linkUp' = IF a.pc = "gattConnect" THEN TRUE ELSE linkUp
            /\ service' = IF a.pc = "getService" THEN "live" ELSE service
            /\ rxChar' = IF a.pc = "getRx" THEN "live" ELSE rxChar
            /\ txChar' = IF a.pc = "getTx" THEN "live" ELSE txChar
            /\ notifyOn' = IF a.pc = "startNotif" THEN TRUE ELSE notifyOn
            /\ ui' = IF a.pc = "startNotif"
                     THEN log([Cur EXCEPT !.ui = setConnected(@, TRUE)],
                              "Connected", <<>>).ui
                     ELSE ui
    /\ UNCHANGED << bluetooth, lineBuffer, lastIdxFromDevice, db, tasks,
                    txQueue, wire, written, added, received, decoded, nLines, nInputs >>

(***************************************************************************)
(* The link goes down: gattserverdisconnected fires onDisconnected.  The   *)
(* handles of the lost link stay assigned, pending GATT operations can     *)
(* only fail, undelivered notifications are lost.                          *)
(***************************************************************************)
Stale(h) == IF h = "live" THEN "stale" ELSE h

Drop ==
    /\ linkUp' = FALSE
    /\ notifyOn' = FALSE
    /\ wire' = <<>>
    /\ server' = Stale(server) /\ service' = Stale(service)
    /\ rxChar' = Stale(rxChar) /\ txChar' = Stale(txChar)
    /\ attempts' = { IF a.pc \in {"requestDevice", "gattConnect"}
                     THEN a ELSE [a EXCEPT !.live = FALSE] : a \in attempts }
    /\ Assign(onDisconnected(
           [Cur EXCEPT !.tasks = {[t EXCEPT !.live = FALSE] : t \in tasks}]))
    /\ nInputs' = nInputs + 1
    /\ UNCHANGED << bluetooth, device, db, received, decoded, nLines >>

\* Link loss.
LinkLost == linkUp /\ nInputs < MaxInputs /\ Drop

\* The Disconnect button: device?.gatt?.disconnect().
ClickDisconnect ==
    /\ ~ui.disabled["btnDisconnect"]
    /\ nInputs < MaxInputs
    /\ IF device # "none" /\ linkUp THEN Drop ELSE UNCHANGED vars

(***************************************************************************)
(* Inbound data.                                                           *)
(***************************************************************************)
\* The device sends one more line.
DeviceSend(l) ==
    /\ linkUp /\ notifyOn
    /\ nLines < MaxLines /\ nInputs < MaxInputs
    /\ nLines' = nLines + 1 /\ nInputs' = nInputs + 1
    /\ wire' = wire \o l \o <<NL>>
    /\ UNCHANGED << bluetooth, device, server, service, rxChar, txChar,
                    lineBuffer, lastIdxFromDevice, db, ui, tasks, attempts,
                    txQueue, linkUp, notifyOn, written, added, received,
                    decoded >>

\* One characteristicvaluechanged event carrying the next k characters.
Notify(k) ==
    /\ linkUp /\ notifyOn
    /\ k \in 1..Len(wire)
    /\ LET v == TextDecode(SubSeq(wire, 1, k))
       IN  /\ Assign(onNotify(Cur, v))
           /\ decoded' = decoded \o v
    /\ wire' = SubSeq(wire, k + 1, Len(wire))
    /\ received' = received \o SubSeq(wire, 1, k)
    /\ UNCHANGED << bluetooth, device, server, service, rxChar, txChar, db,
                    attempts, linkUp, notifyOn, nLines, nInputs >>

(***************************************************************************)
(* User commands: the click handlers of the command buttons.               *)
(***************************************************************************)
ButtonFn(b) ==
    CASE b = "btnSendTime" -> "sendTimeOnly"
      [] b = "btnSendSchedule" -> "sendSchedule"
      [] b = "btnSendBreaks" -> "sendBreaks"
      [] b = "btnSendThresh" -> "sendThresholds"
      [] b = "btnCalOn" -> "calOn"
      [] b = "btnCalOff" -> "calOff"
      [] b = "btnSync" -> "syncReq"

Click(b) ==
    /\ b \in CommandButtons
    /\ ~ui.disabled[b]
    /\ nInputs < MaxInputs
    /\ nInputs' = nInputs + 1
    /\ Assign(StartFn(IF b = "btnSync"
                      THEN [Cur EXCEPT !.ui.syncInfo = "Syncing..."]
                      ELSE Cur,
                      NewTask(b, nInputs + 1, <<ButtonFn(b)>>)))
    /\ UNCHANGED << bluetooth, device, server, service, rxChar, txChar, db,
                    attempts, linkUp, notifyOn, wire, received, decoded, nLines >>

(***************************************************************************)
(* Completions of awaited operations.  A rejection throws out of the       *)
(* async function and its callers: the task ends.                          *)
(***************************************************************************)
\* The outcome of the pending history entry of task t.
Settle(h, t, ok) ==
    [j \in 1..Len(h) |->
        IF h[j].src = t.src /\ h[j].n = t.n /\ h[j].state = "pending"
        THEN [h[j] EXCEPT !.state = IF ok THEN "ok" ELSE "failed"]
        ELSE h[j]]

\* The promise of writeLine settles; without a write (undefined) the await
\* just continues.
WriteDone(t, ok) ==
    /\ t \in tasks /\ t.pc = "write"
    /\ ok => (~t.issued \/ t.live)
    /\ ~t.issued => ok
    /\ LET S0 == [Cur EXCEPT !.tasks = @ \ {t},
                              !.written = IF t.issued THEN Settle(@, t, ok) ELSE @]
       IN  Assign(IF ok THEN AfterWrite(S0, t) ELSE S0)
    /\ UNCHANGED << bluetooth, device, server, service, rxChar, txChar, db,
                    attempts, linkUp, notifyOn, wire, received, decoded, nLines,
                    nInputs >>

\* Transactions on one object store finish in the order they were made.
IsOldest(t, store) ==
    \E i \in 1..Len(txQueue) :
        /\ txQueue[i] = [store |-> store, src |-> t.src, n |-> t.n]
        /\ \A j \in 1..(i - 1) : txQueue[j].store # store

Dequeue(q, t) == SelectSeq(q, LAMBDA e : ~(e.src = t.src /\ e.n = t.n))

\* The settings transaction of task t completes or fails.
SaveDone(t, ok) ==
    /\ t \in tasks /\ t.pc = "save"
    /\ IsOldest(t, "settings")
    /\ db' = IF ok
             THEN [db EXCEPT !.settings[SettingKey(t)] = SettingValue(t)]
             ELSE db
    /\ LET S0 == [Cur EXCEPT !.tasks = @ \ {t}, !.txQueue = Dequeue(@, t)]
       IN  Assign(IF ok THEN FnReturn(S0, t) ELSE S0)
    /\ UNCHANGED << bluetooth, device, server, service, rxChar, txChar,
                    attempts, linkUp, notifyOn, wire, received, decoded, nLines,
                    nInputs >>

\* The events transaction of task t completes or fails.
AddDone(t, ok) ==
    /\ t \in tasks /\ t.pc = "add"
    /\ IsOldest(t, "events")
    /\ db' = IF ok THEN [db EXCEPT !.events = Append(@, t.ev)] ELSE db
    /\ LET S0 == [Cur EXCEPT !.tasks = @ \ {t}, !.txQueue = Dequeue(@, t),
                              !.added = Settle(@, t, ok)]
       IN  Assign(IF ok THEN AfterAdd(S0, t) ELSE S0)
    /\ UNCHANGED << bluetooth, device, server, service, rxChar, txChar,
                    attempts, linkUp, notifyOn, wire, received, decoded, nLines,
                    nInputs >>

Next ==
    \/ ClickConnect
    \/ \E a \in attempts, ok \in BOOLEAN : ConnectStep(a, ok)
    \/ LinkLost
    \/ ClickDisconnect
    \/ \E l \in CoreCatalog : DeviceSend(l)
    \/ \E k \in ChunkEnds(wire) : Notify(k)
    \/ \E b \in CoreButtons : Click(b)
    \/ \E t \in tasks, ok \in BOOLEAN : WriteDone(t, ok)
    \/ \E t \in tasks, ok \in BOOLEAN : SaveDone(t, ok)
    \/ \E t \in tasks, ok \in BOOLEAN : AddDone(t, ok)

Spec == Init /\ [][Next]_vars

(***************************************************************************)
(* The state right after a first successful connect().                     *)
(***************************************************************************)
ConnectedUi ==
    [ InitialUi EXCEPT
        !.connStatus = "Connected",
        !.deviceName = deviceNameText,
        !.disabled = [b \in Buttons |-> b = "btnConnect"],
        !.log = <<[kind |-> "Connected", text |-> <<>>]>> ]

InitConnected ==
    /\ bluetooth = TRUE
    /\ device = "live" /\ server = "live" /\ service = "live"
    /\ rxChar = "live" /\ txChar = "live"
    /\ lineBuffer = <<>>
    /\ lastIdxFromDevice = -1
    /\ db = [events |-> <<>>, settings |-> NoSettings]
    /\ ui = ConnectedUi
    /\ tasks = {} /\ attempts = {} /\ txQueue = <<>>
    /\ linkUp = TRUE /\ notifyOn = TRUE
    /\ wire = <<>> /\ written = <<>> /\ added = <<>> /\ received = <<>> /\ decoded = <<>>
    /\ nLines = 0 /\ nInputs = 1

(***************************************************************************)
(* SpecLines: a connected session in which the device sends any lines of   *)
(* the catalog and the awaited operations settle.                          *)
(***************************************************************************)
NextLines ==
    \/ \E l \in Catalog : DeviceSend(l)
    \/ \E k \in LineEnds(wire) : Notify(k)
    \/ \E t \in tasks, ok \in BOOLEAN : WriteDone(t, ok)
    \/ \E t \in tasks, ok \in BOOLEAN : SaveDone(t, ok)
    \/ \E t \in tasks, ok \in BOOLEAN : AddDone(t, ok)

SpecLines == InitConnected /\ [][NextLines]_vars

(***************************************************************************)
(* SpecMalformed: a connected session in which the device sends only lines *)
(* that are too short for their kind or of no known kind.                  *)
(***************************************************************************)
NextMalformed ==
    \/ \E l \in Malformed : DeviceSend(l)
    \/ \E k \in LineEnds(wire) : Notify(k)
    \/ \E t \in tasks, ok \in BOOLEAN : WriteDone(t, ok)
    \/ \E t \in tasks, ok \in BOOLEAN : SaveDone(t, ok)

SpecMalformed == InitConnected /\ [][NextMalformed]_vars

(***************************************************************************)
(* SpecReconnect: connections that are lost and made again, from a         *)
(* connected session in which the first notification carried the beginning *)
(* of a line and no newline.                                               *)
(***************************************************************************)
PartialLine == <<"S", "Y", "N", "C", ",", "D", "O", "N", "E", ",", "4">>

InitTail ==
    /\ bluetooth = TRUE
    /\ device = "live" /\ server = "live" /\ service = "live"
    /\ rxChar = "live" /\ txChar = "live"
    /\ lineBuffer = PartialLine
    /\ lastIdxFromDevice = -1
    /\ db = [events |-> <<>>, settings |-> NoSettings]
    /\ ui = ConnectedUi
    /\ tasks = {} /\ attempts = {} /\ txQueue = <<>>
    /\ linkUp = TRUE /\ notifyOn = TRUE
    /\ wire = <<>> /\ written = <<>> /\ added = <<>>
    /\ received = PartialLine /\ decoded = PartialLine
    /\ nLines = 0 /\ nInputs = 0

ReconnectLines == {L_SYNC, L_UNKNOWN}

NextReconnect ==
    \/ ClickConnect
    \/ \E a \in attempts, ok \in BOOLEAN : ConnectStep(a, ok)
    \/ LinkLost
    \/ \E l \in ReconnectLines : DeviceSend(l)
    \/ \E k \in ChunkEnds(wire) : Notify(k)
    \/ Click("btnSync")
    \/ \E t \in tasks, ok \in BOOLEAN : WriteDone(t, ok)

SpecReconnect == InitTail /\ [][NextReconnect]_vars

(***************************************************************************)
(* SpecLenient: a connected session in which the device sends only lines   *)
(* with a numeric field that is not a number.                              *)
(***************************************************************************)
NextLenient ==
    \/ \E l \in Lenient : DeviceSend(l)
    \/ \E k \in LineEnds(wire) : Notify(k)
    \/ \E t \in tasks, ok \in BOOLEAN : WriteDone(t, ok)
    \/ \E t \in tasks, ok \in BOOLEAN : AddDone(t, ok)

SpecLenient == InitConnected /\ [][NextLenient]_vars

(***************************************************************************)
(* SpecFramer: a connected session that receives an arbitrary byte stream  *)
(* over FramerAlphabet, cut into chunks in every possible way.             *)
(***************************************************************************)
RECURSIVE Streams(_)
Streams(n) ==
    IF n = 0 THEN {<<>>}
    ELSE Streams(n - 1) \cup
         {Append(s, c) : s \in {x \in Streams(n - 1) : Len(x) = n - 1},
                         c \in FramerAlphabet}

InitFramer ==
    /\ bluetooth = TRUE
    /\ device = "live" /\ server = "live" /\ service = "live"
    /\ rxChar = "live" /\ txChar = "live"
    /\ lineBuffer = <<>>
    /\ lastIdxFromDevice = -1
    /\ db = [events |-> <<>>, settings |-> NoSettings]
    /\ ui = ConnectedUi
    /\ tasks = {} /\ attempts = {} /\ txQueue = <<>>
    /\ linkUp = TRUE /\ notifyOn = TRUE
    /\ wire \in Streams(MaxStream) /\ written = <<>> /\ added = <<>>
    /\ received = <<>> /\ decoded = <<>>
    /\ nLines = 0 /\ nInputs = 1

NextFramer == \E k \in 1..Len(wire) : Notify(k)

SpecFramer == InitFramer /\ [][NextFramer]_vars

(***************************************************************************)
(* The newline-terminated segments of a stream, found from its end.        *)
(***************************************************************************)
LastNL(s) ==
    IF \E i \in 1..Len(s) : s[i] = NL
    THEN CHOOSE i \in 1..Len(s) : s[i] = NL /\ \A j \in (i+1)..Len(s) : s[j] # NL
    ELSE 0

RECURSIVE Segments(_)
Segments(s) ==
    LET p == LastNL(s)
    IN  IF p = 0 THEN <<>>
        ELSE LET q == LastNL(SubSeq(s, 1, p - 1))
             IN  Segments(SubSeq(s, 1, q)) \o <<SubSeq(s, q + 1, p - 1)>>

RECURSIVE TrimmedNonEmpty(_)
TrimmedNonEmpty(segs) ==
    IF segs = <<>> THEN <<>>
    ELSE (IF Trim(Head(segs)) # <<>> THEN <<Trim(Head(segs))>> ELSE <<>>)
             \o TrimmedNonEmpty(Tail(segs))

ExpectedLines(s) == TrimmedNonEmpty(Segments(s))

\* C1 as stated: chunking invariance of the line framer. Whatever the chunks
\* were, the lines handed to handleLine are exactly the newline-terminated
\* segments of the whole stream received (decoded as one text) that are
\* non-empty after trimming, each trimmed, in stream order.
C1_ChunkingInvariance == handled = ExpectedLines(TextDecode(received))

IsAscii(b) == \A i \in 1..Len(b) : b[i] \notin {LEAD, CONT}

\* C1, amended: the lines handed to handleLine are exactly the
\* newline-terminated segments, non-empty after trimming, each trimmed, in
\* order, of the concatenation of the chunks as decoded one by one; for a
\* stream of ASCII bytes that text is the stream itself, whatever the chunks.
C1_DecodedChunksInvariance ==
    /\ handled = ExpectedLines(decoded)
    /\ IsAscii(received) => decoded = received

\* The whole ASCII stream was delivered and two lines were emitted, one of
\* them with white space trimmed off.
C1_Witness ==
    /\ Len(handled) = 2
    /\ IsAscii(received)
    /\ \E i \in 1..Len(Segments(received)) :
           Segments(received)[i] # Trim(Segments(received)[i])
    /\ wire = <<>>

StartsWith(s, p) == Len(s) >= Len(p) /\ SubSeq(s, 1, Len(p)) = p

CausedBy(i) == SelectSeq(written, LAMBDA w : w.src = "line" /\ w.n = i)

P_DONE == <<"S", "Y", "N", "C", ",", "D", "O", "N", "E", ",">>

Indices == 0..99

\* The line SYNC,DONE,n for each index n.
SyncDone == [n \in Indices |-> P_DONE \o String(n)]

SyncDoneLines == {i \in 1..Len(handled) : StartsWith(handled[i], P_DONE)}

\* C2: each line SYNC,DONE,n handled has caused exactly one write, of
\* SYNC,ACK,n; every SYNC,ACK written was caused by a SYNC,DONE line; and
\* lastIdxFromDevice is the n of the latest SYNC,DONE line.
C2_AckOncePerSyncDone ==
    /\ \A i \in SyncDoneLines, n \in Indices :
           handled[i] = SyncDone[n] =>
               /\ Len(CausedBy(i)) = 1
               /\ CausedBy(i)[1].text = P_ACK \o String(n) \o <<NL>>
    /\ \A j \in 1..Len(written) :
           StartsWith(written[j].text, P_ACK) =>
               /\ written[j].src = "line"
               /\ written[j].n \in SyncDoneLines
    /\ \A i \in SyncDoneLines, n \in Indices :
           /\ handled[i] = SyncDone[n]
           /\ \A k \in SyncDoneLines : k <= i
           => lastIdxFromDevice = n

\* SYNC,DONE,42 was handled after a user command was written, and its
\* acknowledgement was written and has succeeded.
C2_Witness ==
    /\ \E j \in 1..Len(written) : written[j].src \in CommandButtons
    /\ \E i \in SyncDoneLines :
           /\ handled[i] = L_SYNC
           /\ CausedBy(i) # <<>>
           /\ CausedBy(i)[1].state = "ok"
    /\ lastIdxFromDevice = 42

\* C3: no outbound command is written while the state is Disconnected:
\* every writeValue call was made in the Connected state.
C3_NoWriteWhileDisconnected ==
    \A j \in 1..Len(written) : written[j].conn = "Connected"

IsHello(l) == l = K_HELLO \/ StartsWith(l, K_HELLO \o <<",">>)

PushPrefixes == <<P_TIME, P_SCHED, P_BREAKS>>

\* C4: the writes caused by a HELLO line are, in this order, a time push, a
\* schedule push and a break-window push, each written only after the one
\* before it has completed; no line causes a CFG,THRESH.
C4_HelloPushOrder ==
    /\ \A i \in 1..Len(handled) :
           IsHello(handled[i]) =>
               LET c == CausedBy(i)
               IN  /\ Len(c) \in 1..3
                   /\ \A k \in 1..Len(c) :
                          /\ StartsWith(c[k].text, PushPrefixes[k])
                          /\ k < Len(c) => c[k].state = "ok"
    /\ \A j \in 1..Len(written) :
           written[j].src = "line" => ~StartsWith(written[j].text, P_THRESH)

\* Two lines were handled, one a HELLO whose three pushes were all written
\* and have succeeded.
C4_Witness ==
    /\ Len(handled) = 2
    /\ \E i \in 1..Len(handled) :
           /\ IsHello(handled[i])
           /\ Len(CausedBy(i)) = 3
           /\ \A k \in 1..3 : CausedBy(i)[k].state = "ok"

\* C5: at most one write to the write characteristic is pending.
C5_OneWriteInFlight ==
    Cardinality({j \in 1..Len(written) : written[j].state = "pending"}) <= 1

\* C6: the writes caused by lines are made in the arrival order of their
\* lines.
C6_WritesInArrivalOrder ==
    \A j, k \in 1..Len(written) :
        /\ j < k
        /\ written[j].src = "line"
        /\ written[k].src = "line"
        => written[j].n <= written[k].n

(***************************************************************************)
(* Stop events: the EV lines that carry at least 4 fields.                 *)
(***************************************************************************)
Commas(l) == Cardinality({k \in 1..Len(l) : l[k] = ","})

IsEvLine(l) == StartsWith(l, K_EV \o <<",">>) /\ Commas(l) >= 3

EvLineIndices ==
    SelectSeq([i \in 1..Len(handled) |-> i], LAMBDA i : IsEvLine(handled[i]))

\* A decimal numeral as String writes it.
IsDecimal(f) ==
    /\ f # <<>>
    /\ \A k \in 1..Len(f) : IsDigit(f[k])
    /\ Len(f) = 1 \/ f[1] # "0"

\* The line with exactly the fields EV, a, b, c in decimal.
EvLineOf(a, b, c) ==
    K_EV \o <<",">> \o String(a) \o <<",">> \o String(b) \o <<",">> \o String(c)

Committed == SelectSeq(added, LAMBDA e : e.state = "ok")

\* C7: the addEvent calls are, in arrival order, one per handled EV line of
\* at least 4 fields and none for any other line; the record of a line
\* EV,a,b,c with decimal a, b, c has startEpoch a, durationMs b and
\* accumStops c; the event store holds, in that order and unchanged, the
\* records whose append has succeeded.
C7_OneRecordPerEvLine ==
    /\ [j \in 1..Len(added) |-> added[j].n] = EvLineIndices
    /\ \A j \in 1..Len(added) :
           LET f == Split(handled[added[j].n], ",")
               e == added[j].ev
           IN  (Len(f) = 4 /\ \A k \in 2..4 : IsDecimal(f[k])) =>
                   handled[added[j].n] =
                       EvLineOf(e.startEpoch, e.durationMs, e.accumStops)
    /\ db.events = [j \in 1..Len(Committed) |-> Committed[j].ev]

\* Two different EV lines were handled, one of them sent with a trailing
\* carriage return, and both records are in the store.
C7_Witness ==
    /\ Len(db.events) = 2
    /\ db.events[1].startEpoch # db.events[2].startEpoch
    /\ \A j \in 1..2 : db.events[j].durationMs > 0

\* A line that is too short for its kind or of no known kind.
IsMalformed(l) ==
    LET f == Split(l, ",")
    IN  CASE f[1] = K_HELLO -> Len(f) < 8
          [] f[1] = K_CAL -> Len(f) < 2
          [] f[1] = K_EV -> Len(f) < 4
          [] f[1] = K_SYNC -> Len(f) < 3 \/ f[2] # K_DONE
          [] OTHER -> TRUE

\* C8: a step that handles one malformed line writes no command, appends no
\* event, leaves no handler running and changes neither lastIdxFromDevice
\* nor the shift total, the last stop, the vibration or the sync status.
C8_MalformedLinesAreNoOps ==
    [][ /\ Len(handled') = Len(handled) + 1
        /\ IsMalformed(handled'[Len(handled')])
        => /\ written' = written
           /\ added' = added
           /\ tasks' = tasks
           /\ lastIdxFromDevice' = lastIdxFromDevice
           /\ ui'.shiftStops = ui.shiftStops
           /\ ui'.lastStop = ui.lastStop
           /\ ui'.vibG = ui.vibG
           /\ ui'.syncInfo = ui.syncInfo ]_vars

ConnectErrors == Len(SelectSeq(ui.log, LAMBDA e : e.kind = "ConnectError"))

\* C9: when a step of a connect attempt fails, the state is Disconnected
\* after the step, one 'Connect error' entry has been logged, and the
\* attempt takes no further step.
C9_FailedAttemptLeavesDisconnected ==
    [][ \A a \in attempts :
            ConnectStep(a, FALSE) =>
                /\ ui'.connStatus = "Disconnected"
                /\ ConnectErrors' = ConnectErrors + 1
                /\ \A b \in attempts' : b.n # a.n ]_vars

FailedWrites == SelectSeq(written, LAMBDA w : w.state = "failed")

\* The log entries that report something other than a received line or a
\* step of the connection life cycle.
OtherReports ==
    SelectSeq(ui.log, LAMBDA e :
        e.kind \notin {"rx", "Connected", "Disconnected", "ConnectError"})

\* C11: every failed outbound write has an entry of its own in the operator
\* log.
C11_FailedWritesAreLogged == Len(OtherReports) >= Len(FailedWrites)

Disconnects == Len(SelectSeq(ui.log, LAMBDA e : e.kind = "Disconnected"))

\* C12: from a disconnect event until the next successful connect, that is
\* while the state is Disconnected after some disconnect, every command
\* button is disabled, whatever handlers are still awaiting a write.
C12_CommandsOnlyWhileConnected ==
    ui.connStatus = "Disconnected" /\ Disconnects > 0 =>
        \A b \in CommandButtons : ui.disabled[b]

\* The link was lost while the calibration-ON handler was awaiting its
\* write, which has not settled yet.
C12_Witness ==
    /\ ui.connStatus = "Disconnected"
    /\ Disconnects > 0
    /\ \E j \in 1..Len(written) :
           /\ written[j].text = T_CALON \o <<NL>>
           /\ written[j].conn = "Connected"
           /\ written[j].state = "pending"

PushButtons == <<"btnSendTime", "btnSendSchedule", "btnSendBreaks">>

\* C13: every write is caused by a handled line or by a click on a command
\* button, so nothing is written after a connect until a line arrives or
\* the user acts; a time, schedule or break push is caused by a HELLO line
\* or by a click on the button of that push.
C13_NothingProactive ==
    /\ \A j \in 1..Len(written) :
           \/ written[j].src = "line" /\ written[j].n \in 1..Len(handled)
           \/ written[j].src \in CommandButtons
    /\ \A j \in 1..Len(written), k \in 1..3 :
           StartsWith(written[j].text, PushPrefixes[k]) =>
               \/ written[j].src = "line" /\ IsHello(handled[written[j].n])
               \/ written[j].src = PushButtons[k]

\* After a successful connect a click on Send time has written a time
\* push, and a HELLO handled after it has written another.
C13_Witness ==
    /\ ui.connStatus = "Connected"
    /\ \E j, k \in 1..Len(written) :
           /\ j < k
           /\ written[j].src = "btnSendTime"
           /\ written[k].src = "line"
           /\ StartsWith(written[k].text, P_TIME)

(***************************************************************************)
(* Numeric fields as the protocol reads them: a field that is a decimal    *)
(* numeral has its value, any other field has the fallback 0.              *)
(***************************************************************************)
IsNumeral(f) == f # <<>> /\ \A k \in 1..Len(f) : IsDigit(f[k])

FieldValue(f) == IF IsNumeral(f) THEN DigitsValue(f) ELSE 0

\* A decimal number with an optional fraction.
IsNumber(f) ==
    LET p == Split(f, ".")
    IN  /\ Len(p) \in 1..2
        /\ \A k \in 1..Len(p) : IsNumeral(p[k])

CalLines ==
    {i \in 1..Len(handled) :
        Split(handled[i], ",")[1] = K_CAL /\ Len(Split(handled[i], ",")) >= 2}

\* C14: a numeric field that is not a number decodes to 0 and the others
\* keep their values: the record of an EV line holds the values of its
\* fields, a SYNC,DONE line is acknowledged with the value of its index,
\* which lastIdxFromDevice then holds, and the vibration shows 0.000000 when
\* the value of the latest CAL line is not a number.
C14_MalformedFieldsDecodeToZero ==
    /\ [j \in 1..Len(added) |-> added[j].n] = EvLineIndices
    /\ \A j \in 1..Len(added) :
           LET f == Split(handled[added[j].n], ",")
           IN  /\ added[j].ev.startEpoch = FieldValue(f[2])
               /\ added[j].ev.durationMs = FieldValue(f[3])
               /\ added[j].ev.accumStops = FieldValue(f[4])
    /\ \A i \in SyncDoneLines :
           LET v == FieldValue(Split(handled[i], ",")[3])
           IN  /\ Len(CausedBy(i)) = 1
               /\ CausedBy(i)[1].text = P_ACK \o String(v) \o <<NL>>
               /\ (\A k \in SyncDoneLines : k <= i) => lastIdxFromDevice = v
    /\ \A i \in CalLines :
           /\ \A k \in CalLines : k <= i
           /\ ~IsNumber(Split(handled[i], ",")[2])
           => ui.vibG = ZeroFixed

\* The entries of the log up to the latest "Disconnected" one.
RECURSIVE UpToDisconnect(_)
UpToDisconnect(l) ==
    IF l = <<>> \/ l[Len(l)].kind = "Disconnected" THEN l
    ELSE UpToDisconnect(SubSeq(l, 1, Len(l) - 1))

Reconnected == ui.connStatus = "Connected" /\ Disconnects > 0

\* C15: lastIdxFromDevice is -1 as long as no SYNC,DONE line with three
\* fields has been handled, and only a step that handles such a line changes
\* it: no other line, no connect, disconnect or reconnect, no command and no
\* settled write does.
C15_OnlySyncDoneSetsLastIdx ==
    /\ [](SyncDoneLines = {} => lastIdxFromDevice = -1)
    /\ [][lastIdxFromDevice' # lastIdxFromDevice
             => SyncDoneLines' # SyncDoneLines]_vars

\* A new connection after a disconnect, with the index of a SYNC,DONE line
\* whose acknowledgement failed still in place.
C15_Witness ==
    /\ Reconnected
    /\ lastIdxFromDevice # -1
    /\ \E j \in 1..Len(written) :
           StartsWith(written[j].text, P_ACK) /\ written[j].state = "failed"

\* The lines handled since the latest disconnect.
HandledSinceDisconnect ==
    RxLines(SubSeq(ui.log, Len(UpToDisconnect(ui.log)) + 1, Len(ui.log)))

\* C16: after a disconnect, every line handled is made of bytes received
\* since then only.  The device starts each connection at the beginning of a
\* line and sends whole lines, so each such line is one of the lines sent.
C16_NoTailAcrossConnections ==
    Disconnects > 0 =>
        \A i \in 1..Len(HandledSinceDisconnect) :
            HandledSinceDisconnect[i] \in {Trim(l) : l \in ReconnectLines}

\* The position of the accumStops field in a line that carries one, else 0.
AccumField(l) ==
    LET f == Split(l, ",")
    IN  IF f[1] = K_HELLO /\ Len(f) >= 8 THEN 8
        ELSE IF f[1] = K_EV /\ Len(f) >= 4 THEN 4
        ELSE 0

AccumLines == {i \in 1..Len(handled) : AccumField(handled[i]) # 0}

\* C17: once no handler is waiting any more, the shift total shown is the
\* accumStops of the latest line handled that carries one.
C17_ShiftTotalIsLatestAccum ==
    tasks = {} =>
        \A i \in AccumLines :
            (\A k \in AccumLines : k <= i) =>
                ui.shiftStops =
                    String(OrZero(parseInt(
                        Split(handled[i], ",")[AccumField(handled[i])])))

\* The handler of line i is not waiting for anything any more.
HandlerDone(i) == ~\E t \in tasks : t.src = "line" /\ t.n = i

\* C18: with the link up, a HELLO line whose handler has ended without
\* any of its writes failing has had its three pushes written, whether the
\* settings were saved or not.  (A handler that has ended writes nothing
\* more, so a HELLO line for which this fails is never followed by its
\* three pushes.)
C18_HelloIsFollowedByPushes ==
    \A i \in 1..Len(handled) :
        /\ IsHello(handled[i])
        /\ HandlerDone(i)
        /\ \A k \in 1..Len(CausedBy(i)) : CausedBy(i)[k].state = "ok"
        => Len(CausedBy(i)) = 3

\* The write at position k acknowledges a SYNC,DONE line and has succeeded.
IsAcked(k) ==
    /\ written[k].src = "line"
    /\ StartsWith(written[k].text, P_ACK)
    /\ written[k].state = "ok"

\* C19: while the sync status shows 'Sync complete.', every SYNC,REQ issued
\* has been followed by a SYNC,DONE line whose SYNC,ACK write succeeded.
C19_SyncCompleteMeansNoRequestOpen ==
    ui.syncInfo = "Sync complete." =>
        \A j \in 1..Len(written) :
            written[j].src = "btnSync" =>
                \E k \in (j + 1)..Len(written) : IsAcked(k)

====
